---- MODULE Spec2Model ----
(***************************************************************************)
(* Model of the OAS-to-HTML batch pipeline: the source-list loader         *)
(* (fetcher.fetch_urls_from_file), the document fetcher                    *)
(* (fetcher.fetch_oas_from_url), the conversion adapter                    *)
(* (converter.convert_oas) and the three batch loops                       *)
(* (lambda_function._batch_process_from_s3,                                *)
(* fetcher.fetch_all_from_urls_file, batch_convert.main).                  *)
(*                                                                         *)
(* Text is modelled as a sequence of one-character strings, so that the    *)
(* string operations of the code (strip, split, rstrip, replace, ...) are  *)
(* computed character by character as Python computes them.               *)
(***************************************************************************)
EXTENDS Integers, Sequences, FiniteSets, TLC

(***************************************************************************)
(* Bounds of the model.                                                    *)
(***************************************************************************)
\* longest source-list text enumerated character by character
MaxTextLen == 3
\* longest source list built from the named URLs
MaxUrls == 2
\* pieces concatenated into a sample filename
MaxPieces == 3

(***************************************************************************)
(* Python string operations on character sequences.                        *)
(***************************************************************************)
NL == "\n"
SP == " "
\* the whitespace the model's alphabet can hold (str.strip() strips these)
Whitespace == {SP, NL}

DropFirst(s, n) == SubSeq(s, n + 1, Len(s))

RECURSIVE lstrip(_, _)
lstrip(s, chars) ==
    IF s # <<>> /\ Head(s) \in chars THEN lstrip(Tail(s), chars) ELSE s

RECURSIVE rstrip(_, _)
rstrip(s, chars) ==
    IF s # <<>> /\ s[Len(s)] \in chars
    THEN rstrip(SubSeq(s, 1, Len(s) - 1), chars)
    ELSE s

\* str.strip(): leading and trailing whitespace removed
strip(s) == rstrip(lstrip(s, Whitespace), Whitespace)

startswith(s, p) == Len(s) >= Len(p) /\ SubSeq(s, 1, Len(p)) = p

endswith(s, p) == Len(s) >= Len(p) /\ SubSeq(s, Len(s) - Len(p) + 1, Len(s)) = p

\* index of the first occurrence of character c in s, 0 when there is none
RECURSIVE find(_, _, _)
find(s, c, from) ==
    IF from > Len(s) THEN 0
    ELSE IF s[from] = c THEN from
    ELSE find(s, c, from + 1)

\* str.split(c): always at least one piece; "".split(c) = [""]
RECURSIVE split(_, _)
split(s, c) ==
    LET k == find(s, c, 1)
    IN  IF k = 0 THEN <<s>>
        ELSE <<SubSeq(s, 1, k - 1)>> \o split(DropFirst(s, k), c)

\* str.replace(old, new): every non-overlapping occurrence, left to right
RECURSIVE replace(_, _, _)
replace(s, old, new) ==
    IF s = <<>> THEN <<>>
    ELSE IF startswith(s, old) THEN new \o replace(DropFirst(s, Len(old)), old, new)
    ELSE <<Head(s)>> \o replace(Tail(s), old, new)

\* index of the last occurrence of character c in s, 0 when there is none
RECURSIVE rfind(_, _, _)
rfind(s, c, from) ==
    IF from < 1 THEN 0
    ELSE IF s[from] = c THEN from
    ELSE rfind(s, c, from - 1)

\* os.path.splitext(p)[0] for a name without directory separators: the
\* extension starts at the last dot, unless only dots precede it
splitext_root(p) ==
    LET dot == rfind(p, ".", Len(p))
    IN  IF dot > 0 /\ \E k \in 1..(dot - 1) : p[k] # "."
        THEN SubSeq(p, 1, dot - 1)
        ELSE p

(***************************************************************************)
(* fetcher.fetch_urls_from_file: parsing of the source-list text.          *)
(***************************************************************************)
\* the loop body without the removal of trailing dots
RECURSIVE parse_lines_keepdots(_, _)
parse_lines_keepdots(lines, urls) ==
    IF lines = <<>> THEN urls
    ELSE LET line == strip(Head(lines))
         IN  IF line # <<>> /\ ~startswith(line, <<"#">>)
             THEN parse_lines_keepdots(Tail(lines), Append(urls, line))
             ELSE parse_lines_keepdots(Tail(lines), urls)

\* the loop body skipping an entry that is already in the list
RECURSIVE parse_lines_dedup(_, _)
parse_lines_dedup(lines, urls) ==
    IF lines = <<>> THEN urls
    ELSE LET line == strip(Head(lines))
             url == rstrip(line, {"."})
         IN  IF line # <<>> /\ ~startswith(line, <<"#">>)
                /\ ~(\E k \in 1..Len(urls) : urls[k] = url)
             THEN parse_lines_dedup(Tail(lines), Append(urls, url))
             ELSE parse_lines_dedup(Tail(lines), urls)

\* the body of the for loop, applied to the lines still to read
RECURSIVE parse_lines(_, _)
parse_lines(lines, urls) ==
    IF lines = <<>> THEN urls
    ELSE LET line == strip(Head(lines))
         IN  IF line # <<>> /\ ~startswith(line, <<"#">>)
             THEN parse_lines(Tail(lines), Append(urls, rstrip(line, {"."})))
             ELSE parse_lines(Tail(lines), urls)

parse_urls(content) == parse_lines(split(strip(content), NL), <<>>)

(***************************************************************************)
(* Names and extensions, as character sequences.                           *)
(***************************************************************************)
YAML == <<".", "y", "a", "m", "l">>
YML == <<".", "y", "m", "l">>
JSON == <<".", "j", "s", "o", "n">>
HTML == <<".", "h", "t", "m", "l">>
OPENAPI_JSON == <<"o", "p", "e", "n", "a", "p", "i">> \o JSON
INDEX_HTML == <<"i", "n", "d", "e", "x">> \o HTML
HTML_PREFIX == <<"h", "t", "m", "l", "/">>
OUTPUT_DIR == <<"o", "u", "t", "p", "u", "t", "/">>
NoName == <<>>

\* fetcher.fetch_oas_from_url: the filename is what follows the last "/"
derive_filename(url) ==
    LET parts == split(url, "/")
        filename == parts[Len(parts)]
    IN  IF filename = <<>> THEN OPENAPI_JSON ELSE filename

\* a naming rule that appends the extension instead of replacing it
lambda_html_filename_append(filename) == filename \o HTML

\* lambda_function._batch_process_from_s3: name of the uploaded artifact
lambda_html_filename(filename) ==
    replace(replace(replace(filename, YAML, HTML), YML, HTML), JSON, HTML)

lambda_s3_key(filename) == HTML_PREFIX \o lambda_html_filename(filename)

\* batch_convert.main: path of the saved artifact
batch_html_filename(filename) ==
    replace(replace(filename, YAML, HTML), JSON, HTML)

batch_output_file(filename) == OUTPUT_DIR \o batch_html_filename(filename)

\* main.main without --output: path of the saved artifact
main_output_file(filename) == OUTPUT_DIR \o splitext_root(filename) \o HTML

(***************************************************************************)
(* Inputs: source-list texts.                                              *)
(***************************************************************************)
Alphabet == {"a", ".", "#", SP, NL}

ShortTexts == UNION {[1..n -> Alphabet] : n \in 0..MaxTextLen}

HOST == <<"h", "/">>
NamedUrls ==
    { HOST \o <<"a">> \o YAML,
      HOST \o <<"b">> \o YML,
      HOST \o <<"c">> \o JSON,
      HOST \o <<"d">> \o JSON \o YAML,
      HOST }

RECURSIVE join_lines(_)
join_lines(ls) ==
    IF ls = <<>> THEN <<>>
    ELSE IF Len(ls) = 1 THEN Head(ls)
    ELSE Head(ls) \o <<NL>> \o join_lines(Tail(ls))

NamedTexts ==
    {join_lines(ls) : ls \in UNION {[1..n -> NamedUrls] : n \in 0..MaxUrls}}

\* the scenario of the specification: a comment, a blank line, a URL and a
\* URL with a trailing dot
ExampleText ==
    join_lines(<< <<"#", SP, "c">>, <<>>, HOST \o <<"a">> \o JSON,
                  HOST \o <<"b">> \o JSON \o <<".">> >>)

\* a document whose URL ends in the name of the tool's output file
IndexUrl == HOST \o INDEX_HTML

SourceTexts == ShortTexts \cup NamedTexts \cup {ExampleText, IndexUrl}

\* a document URL with a query string that contains a "/"
QueryUrl == HOST \o <<"a">> \o JSON \o <<"?", "r", "=", "/", "b">>

\* the lists uploaded under a notified key: the example and the lists of
\* one URL
NotifiedTexts == {ExampleText, QueryUrl} \cup NamedUrls

(***************************************************************************)
(* State.                                                                  *)
(***************************************************************************)
VARIABLES
    entry,          \* the entry point that runs: "lambda", "fetch_all",
                    \* "batch_convert" or "main"
    event,          \* the event handed to lambda_handler: [kind, key]
    auth_env,       \* what auth.get_credentials and the token endpoint come
                    \* to: [managed, CLIENT_ID, CLIENT_SECRET, secret, endpoint]
    text,           \* content of the source list (urls.txt)
    list_readable,  \* whether the source list can be read (file or S3 object exists)
    use_auth,       \* the use_auth argument of the run
    AUTH_AVAILABLE, \* fetcher.AUTH_AVAILABLE: the auth module could be imported
    TOKEN_URL_set,  \* a token URL is given (argument or TOKEN_URL in the environment)
    tool_found,     \* Node.js and the packager CLI can be located
    pc,             \* position of the run
    urls,           \* the loaded source entries
    total,          \* len(urls)
    i,              \* index of the current item of the loop (1-based)
    results,        \* the per-item results appended so far
    successful,     \* counter of the Lambda handler and of fetch_all_from_urls_file
    failed,         \* counter of the Lambda handler and of fetch_all_from_urls_file
    fetch_result,   \* the successful fetch result of the item being processed
    converted,      \* counter of batch_convert.main
    bc_failed,      \* counter "failed" of batch_convert.main
    token_calls,    \* number of calls of generate_bearer_token
    published,      \* artifacts uploaded or saved: [filename, name]
    envlog,         \* per item, what each stage invoked for it came back with
    calls,          \* the stage invocations in the order they happened
    status,         \* how the run ended
    conv_run,       \* what the last run of the rendering tool came back with
    message,        \* kind of body of the Lambda response
    list_reads,     \* number of calls of fetch_urls_from_file
    cred_reads,     \* number of calls of auth.get_credentials
    token_requests, \* number of POSTs to the token endpoint
    token_result,   \* what auth.generate_bearer_token returned
    get_request,    \* the last GET of a document: [item, authorization, response]
    urls_file       \* the path handed to fetch_urls_from_file

vars ==
    <<entry, event, auth_env, text, list_readable, use_auth, AUTH_AVAILABLE,
      TOKEN_URL_set, tool_found, pc, urls, total, i, results, successful, failed,
      fetch_result, converted, bc_failed, token_calls, published, envlog,
      calls, status, conv_run, message, list_reads, cred_reads,
      token_requests, token_result, get_request, urls_file>>

inputs ==
    <<entry, event, auth_env, text, list_readable, use_auth, AUTH_AVAILABLE,
      TOKEN_URL_set, tool_found>>

(***************************************************************************)
(* auth: get_credentials and generate_bearer_token.                        *)
(***************************************************************************)
\* an environment variable is unset, set to the empty string or set
EnvValues == {"unset", "empty", "value"}

\* what requests.post to the token endpoint comes to
TokenResponses ==
    {"token", "no_access_token", "status_not_200", "request_error", "bad_json"}

\* managed: AWS_LAMBDA_FUNCTION_NAME is set; secret: what reading the
\* secret token_cred comes to; endpoint: what the token endpoint answers
AuthEnvs ==
    {[managed |-> FALSE, CLIENT_ID |-> a, CLIENT_SECRET |-> b, secret |-> "ok",
      endpoint |-> e] : a \in EnvValues, b \in EnvValues, e \in TokenResponses}
    \cup {[managed |-> TRUE, CLIENT_ID |-> "unset", CLIENT_SECRET |-> "unset",
           secret |-> x, endpoint |-> e] :
              x \in {"ok", "error", "missing_key"}, e \in TokenResponses}

NoAuthEnv ==
    [managed |-> FALSE, CLIENT_ID |-> "unset", CLIENT_SECRET |-> "unset",
     secret |-> "ok", endpoint |-> "token"]

\* the credentials resolve and the endpoint issues a token
GoodAuthEnv ==
    [managed |-> FALSE, CLIENT_ID |-> "value", CLIENT_SECRET |-> "value",
     secret |-> "ok", endpoint |-> "token"]

\* a check that fails only when both variables are missing
get_credentials_from_env_both(client_id, client_secret) ==
    IF client_id # "value" /\ client_secret # "value" THEN "raised" ELSE "ok"

\* if not client_id or not client_secret: raise
get_credentials_from_env(client_id, client_secret) ==
    IF client_id # "value" \/ client_secret # "value" THEN "raised" ELSE "ok"

get_credentials_from_secrets_manager(secret) ==
    IF secret = "ok" THEN "ok" ELSE "raised"

get_credentials(env) ==
    IF env.managed
    THEN get_credentials_from_secrets_manager(env.secret)
    ELSE get_credentials_from_env(env.CLIENT_ID, env.CLIENT_SECRET)

NoToken == [success |-> FALSE, error |-> "none"]

\* the result of generate_bearer_token for a response of the endpoint; a
\* body that is not JSON raises in response.json(), which is a
\* RequestException or a ValueError depending on the requests version
token_results(resp) ==
    CASE resp = "token" -> {[success |-> TRUE, error |-> ""]}
      [] resp = "status_not_200" -> {[success |-> FALSE, error |-> "token_request_failed"]}
      [] resp = "no_access_token" -> {[success |-> FALSE, error |-> "no_access_token"]}
      [] resp = "request_error" -> {[success |-> FALSE, error |-> "request_failed"]}
      [] OTHER -> {[success |-> FALSE, error |-> "request_failed"],
                   [success |-> FALSE, error |-> "token_generation_failed"]}

(***************************************************************************)
(* lambda_function.lambda_handler: the events.                             *)
(***************************************************************************)
URLS_TXT == <<"u", "r", "l", "s", ".", "t", "x", "t">>

\* object keys of an S3 notification
EventKeys ==
    { URLS_TXT,
      <<"d", "/">> \o URLS_TXT,
      <<"a", ".", "t", "x", "t">>,
      URLS_TXT \o <<".", "b">> }

\* the keys of Records[1:], the records after the first
LaterRecords == {<<>>, <<URLS_TXT>>}

\* "records": an S3 notification, key is Records[0].s3.object.key and rest
\* the keys of the later records;
\* "empty_records": 'Records' is an empty list;
\* "bad_record": Records[0] lacks s3, bucket, object or key;
\* "manual": an event with s3_bucket, key is its urls_file;
\* "url": {'url': ...}; "inline": {'oas_content': ..., 'oas_file_name': ...};
\* "invalid": any other event without Records and s3_bucket
LambdaEvents ==
    {[kind |-> "records", key |-> k, rest |-> r] :
        k \in EventKeys, r \in LaterRecords}
    \cup {[kind |-> "manual", key |-> URLS_TXT, rest |-> <<>>]}
    \cup {[kind |-> x, key |-> <<>>, rest |-> r] :
            x \in {"empty_records", "bad_record", "url", "inline", "invalid"},
            r \in {<<>>}}
    \cup {[kind |-> "bad_record", key |-> <<>>, rest |-> <<URLS_TXT>>]}

NoEvent == [kind |-> "none", key |-> <<>>, rest |-> <<>>]

\* the events that reach _batch_process_from_s3 or a loader
BatchKinds == {"records", "manual", "none"}

\* a handler that starts the batch for every notified key
is_urls_file_any(key) == TRUE

\* key.endswith('urls.txt')
is_urls_file(key) == endswith(key, URLS_TXT)

\* a batch_event that takes over the use_auth of the notification
batch_use_auth_of_event == use_auth

\* the use_auth read by _batch_process_from_s3: the batch_event built for
\* a notification has no such key
batch_use_auth == IF event.kind = "records" THEN FALSE ELSE use_auth

\* the urls_file read by _batch_process_from_s3, and the default of
\* fetch_all_from_urls_file
batch_urls_file == IF entry = "lambda" THEN event.key ELSE URLS_TXT

(***************************************************************************)
(* fetcher.fetch_oas_from_url.                                             *)
(***************************************************************************)
\* what requests.get comes to: a final response of class 2xx ("ok"), a
\* final response of class 3xx (304, or a redirect without Location), a
\* response of class 4xx or 5xx ("http_error"), a timeout or another
\* RequestException
FetchOutcomes == {"ok", "status_3xx", "timeout", "http_error", "request_error"}

\* get: requests.get was called; authorization: the Authorization header
\* of that call
NoFetch ==
    [success |-> FALSE, raised |-> FALSE, error |-> "", filename |-> NoName,
     token_call |-> FALSE, get |-> FALSE, authorization |-> "none"]

NoGet == [item |-> 0, authorization |-> "none", response |-> "none"]

\* a fetch that obtains a token and sends it whether or not use_auth is set
fetch_oas_from_url_always_auth(url, auth, net) ==
    IF net \in {"ok", "status_3xx"}
    THEN [NoFetch EXCEPT !.success = TRUE, !.filename = derive_filename(url),
                         !.token_call = TRUE, !.get = TRUE,
                         !.authorization = "bearer"]
    ELSE [NoFetch EXCEPT !.error = net, !.token_call = TRUE, !.get = TRUE,
                         !.authorization = "bearer"]

\* auth.generate_bearer_token takes no parameter and fetch_oas_from_url
\* calls it with one: the call raises TypeError, which none of the except
\* clauses of fetch_oas_from_url catches
generate_bearer_token_call == "TypeError"

fetch_oas_from_url(url, auth, net) ==
    IF auth /\ ~AUTH_AVAILABLE
    THEN [NoFetch EXCEPT !.error = "auth_unavailable"]
    ELSE IF auth /\ ~TOKEN_URL_set
    THEN [NoFetch EXCEPT !.error = "no_token_url"]
    ELSE IF auth
    THEN [NoFetch EXCEPT !.raised = TRUE, !.token_call = TRUE,
                         !.error = generate_bearer_token_call]
    \* headers = {}; raise_for_status raises for 4xx and 5xx only
    ELSE IF net \in {"ok", "status_3xx"}
    THEN [NoFetch EXCEPT !.success = TRUE, !.filename = derive_filename(url),
                         !.get = TRUE]
    ELSE [NoFetch EXCEPT !.error = net, !.get = TRUE]

(***************************************************************************)
(* converter.convert_oas: OASConverter(...) then convert(...).             *)
(***************************************************************************)
\* what one run of the adapter meets: mkdtemp failing, the write of the
\* input file failing, the tool timing out, or the tool exiting with a
\* return code, having produced its output file or not
ConvRuns ==
    { [kind |-> "mkdtemp_error", rc |-> 0, out |-> FALSE],
      [kind |-> "write_error", rc |-> 0, out |-> FALSE],
      [kind |-> "timeout", rc |-> 0, out |-> FALSE],
      [kind |-> "exit", rc |-> 1, out |-> FALSE],
      [kind |-> "exit", rc |-> 0, out |-> FALSE],
      [kind |-> "exit", rc |-> 0, out |-> TRUE] }

\* no subprocess was started
NoRun == [kind |-> "none", rc |-> 0, out |-> FALSE]

\* the directory made by tempfile.mkdtemp for one call of convert
TEMP_DIR == <<"t", "/">>

\* os.path.join(temp_dir, filename): where the document is written
input_file(filename) == TEMP_DIR \o filename

\* os.path.join(temp_dir, 'index.html'): where the output is expected
html_output == TEMP_DIR \o INDEX_HTML

\* run: what subprocess.run came back with, when it was called
NoConv == [success |-> FALSE, raised |-> FALSE, error |-> "", run |-> NoRun]

convert_oas(filename, run) ==
    IF ~tool_found
    THEN [NoConv EXCEPT !.raised = TRUE, !.error = "ToolNotFound"]
    ELSE IF run.kind = "mkdtemp_error"
    THEN [NoConv EXCEPT !.raised = TRUE, !.error = "OSError"]
    ELSE IF run.kind = "write_error"
    THEN [NoConv EXCEPT !.error = "conv_exception"]
    ELSE IF run.kind = "timeout"
    THEN [NoConv EXCEPT !.error = "conv_timeout", !.run = run]
    ELSE IF run.rc # 0
    THEN [NoConv EXCEPT !.error = "tool_error", !.run = run]
    \* the input is written to temp_dir/<filename> and the output is
    \* expected at temp_dir/index.html
    ELSE IF ~(run.out \/ input_file(filename) = html_output)
    THEN [NoConv EXCEPT !.error = "output_missing", !.run = run]
    ELSE [NoConv EXCEPT !.success = TRUE, !.run = run]

(***************************************************************************)
(* Result records and bookkeeping of the loops.                            *)
(***************************************************************************)
Result(url, ok, error, filename, s3_key) ==
    [url |-> url, success |-> ok, error |-> error, filename |-> filename,
     s3_key |-> s3_key]

NoEnv == [fetch |-> "none", conv |-> "none", pub |-> "none"]

\* "break" in place of "continue": a failed item ends the loop
break_after_failure(k) == total + 1

\* the loop goes on with the next item after a failed one
continue_after_failure(k) == k + 1

\* the except branch appending its failure without counting it
record_item_uncounted(rec) ==
    /\ results' = Append(results, rec)
    /\ successful' = IF rec.success THEN successful + 1 ELSE successful
    /\ failed' = IF rec.success \/ rec.error \in {"TypeError", "ToolNotFound", "OSError"}
                 THEN failed ELSE failed + 1
    /\ i' = IF rec.success THEN i + 1 ELSE continue_after_failure(i)
    /\ pc' = "loop"

\* results.append(...) and the counter of the branch, then the next item
record_item(rec) ==
    /\ results' = Append(results, rec)
    /\ successful' = IF rec.success THEN successful + 1 ELSE successful
    /\ failed' = IF rec.success THEN failed ELSE failed + 1
    /\ i' = IF rec.success THEN i + 1 ELSE continue_after_failure(i)
    /\ pc' = "loop"

(***************************************************************************)
(* Initial states.                                                         *)
(***************************************************************************)
Init ==
    /\ entry \in {"lambda", "fetch_all", "batch_convert", "main", "auth",
                  "process_oas"}
    /\ event \in (IF entry = "lambda" THEN LambdaEvents ELSE {NoEvent})
    /\ list_readable \in (IF entry \in {"main", "auth", "process_oas"}
                                \/ event.kind \notin BatchKinds
                           THEN {TRUE} ELSE BOOLEAN)
    \* for main.main the text is the --url argument
    /\ text \in (IF entry = "main" THEN NamedUrls \cup {IndexUrl, QueryUrl}
                 ELSE IF entry = "auth" \/ event.kind \notin BatchKinds THEN {<<>>}
                 ELSE IF ~list_readable THEN {<<>>}
                 ELSE IF event.kind = "records" \/ entry = "process_oas"
                 THEN NotifiedTexts
                 ELSE SourceTexts)
    \* batch_convert.main calls fetch_all_from_urls_file(urls_file) and
    \* main.main calls fetch_oas_from_url(args.url)
    \* an event may carry use_auth whatever its kind
    /\ use_auth \in (IF entry \in {"batch_convert", "main", "auth", "process_oas"}
                         \/ event.kind \notin BatchKinds
                      THEN {FALSE} ELSE BOOLEAN)
    /\ auth_env \in (IF entry = "auth" THEN AuthEnvs
                     ELSE IF use_auth THEN {NoAuthEnv, GoodAuthEnv}
                     ELSE {NoAuthEnv})
    /\ AUTH_AVAILABLE \in (IF use_auth THEN BOOLEAN ELSE {TRUE})
    /\ TOKEN_URL_set \in (IF use_auth THEN BOOLEAN ELSE {TRUE})
    /\ tool_found \in (IF entry \in {"fetch_all", "auth", "process_oas"}
                             \/ event.kind \notin BatchKinds
                        THEN {TRUE} ELSE BOOLEAN)
    /\ pc = "start"
    /\ urls = <<>>
    /\ total = 0
    /\ i = 1
    /\ results = <<>>
    /\ successful = 0
    /\ failed = 0
    /\ fetch_result = NoFetch
    /\ converted = 0
    /\ bc_failed = 0
    /\ token_calls = 0
    /\ published = <<>>
    /\ envlog = <<>>
    /\ calls = <<>>
    /\ status = "none"
    /\ conv_run = NoRun
    /\ message = "none"
    /\ list_reads = 0
    /\ cred_reads = 0
    /\ token_requests = 0
    /\ token_result = NoToken
    /\ get_request = NoGet
    /\ urls_file = <<>>

(***************************************************************************)
(* lambda_function.lambda_handler: dispatch on the event.                  *)
(***************************************************************************)
\* a handler without the except clause: the exception leaves it
lambda_handler_propagates ==
    pc' = "aborted" /\ status' = "raised" /\ message' = "exception"

\* except Exception as e: return {'statusCode': 500, ...}
lambda_handler_except ==
    pc' = "done" /\ status' = "500" /\ message' = "exception"

LambdaHandler ==
    /\ entry = "lambda" /\ pc = "start"
    /\ IF event.kind \in {"empty_records", "bad_record"}
       THEN \* event['Records'][0] raises IndexError, record['s3']... raises
            \* KeyError: the except clause of the handler answers
            lambda_handler_except
       ELSE IF event.kind = "records"
       THEN IF ~is_urls_file(event.key)
            THEN pc' = "done" /\ status' = "200" /\ message' = "skipped"
            ELSE pc' = "batch" /\ UNCHANGED <<status, message>>
       ELSE IF event.kind = "manual"
       THEN pc' = "batch" /\ UNCHANGED <<status, message>>
       ELSE pc' = "done" /\ status' = "400" /\ message' = "invalid_event"
    /\ UNCHANGED <<inputs, urls_file, get_request, token_result, token_requests,
                   cred_reads, list_reads, conv_run, urls, total, i, results,
                   successful, failed, fetch_result, converted, bc_failed,
                   token_calls, published, envlog, calls>>

(***************************************************************************)
(* Loading the source list (all entry points).                             *)
(***************************************************************************)
\* a caller that goes on with an empty list when the list cannot be read
LoadSources_unchecked ==
    /\ entry \in {"lambda", "fetch_all", "batch_convert"}
    /\ pc = (IF entry = "lambda" THEN "batch" ELSE "start")
    /\ list_reads' = list_reads + 1
    /\ urls_file' = batch_urls_file
    /\ urls' = IF list_readable THEN parse_urls(text) ELSE <<>>
    /\ total' = IF list_readable THEN Len(parse_urls(text)) ELSE 0
    /\ pc' = "loop"
    /\ UNCHANGED <<inputs, get_request, token_result, token_requests,
                   cred_reads, status, message, conv_run, i, results,
                   successful, failed, fetch_result, converted, bc_failed,
                   token_calls, published, envlog, calls>>

\* fetch_urls_from_file, and what each caller does when it fails
LoadSources ==
    /\ entry \in {"lambda", "fetch_all", "batch_convert"}
    /\ pc = (IF entry = "lambda" THEN "batch" ELSE "start")
    /\ list_reads' = list_reads + 1
    /\ urls_file' = batch_urls_file
    /\ IF list_readable
       THEN /\ urls' = parse_urls(text)
            /\ total' = Len(parse_urls(text))
            /\ pc' = "loop"
            /\ UNCHANGED <<status, message>>
       ELSE /\ UNCHANGED <<urls, total>>
            /\ pc' = "done"
            /\ status' = CASE entry = "lambda" -> "404"
                           [] entry = "fetch_all" -> "success_false"
                           [] OTHER -> "exit1"
            /\ message' = IF entry = "lambda" THEN "read_failed" ELSE message
    /\ UNCHANGED <<inputs, get_request, token_result, token_requests,
                   cred_reads, conv_run, i, results, successful, failed,
                   fetch_result, converted, bc_failed, token_calls, published,
                   envlog, calls>>

(***************************************************************************)
(* lambda_function._batch_process_from_s3: the item loop.                  *)
(***************************************************************************)
LambdaFetch ==
    /\ entry = "lambda" /\ pc = "loop" /\ i <= total
    /\ \E net \in FetchOutcomes :
         LET r == fetch_oas_from_url(urls[i], batch_use_auth, net)
         IN  /\ token_calls' = token_calls + (IF r.token_call THEN 1 ELSE 0)
             /\ calls' = Append(calls, <<"fetch", i>>)
             /\ get_request' =
                    IF r.get
                    THEN [item |-> i, authorization |-> r.authorization,
                          response |-> net]
                    ELSE get_request
             /\ envlog' = Append(envlog,
                    [NoEnv EXCEPT !.fetch = IF r.success THEN "ok" ELSE r.error])
             /\ IF r.success
                THEN /\ fetch_result' = r
                     /\ pc' = "fetched"
                     /\ UNCHANGED <<i, results, successful, failed>>
                ELSE \* the "not success" branch and the except branch
                     \* both append a failure without a filename
                     /\ record_item(Result(urls[i], FALSE, r.error, NoName, NoName))
                     /\ UNCHANGED fetch_result
    /\ UNCHANGED <<inputs, urls_file, token_result, token_requests, cred_reads,
                   list_reads, message, conv_run, urls, total, converted,
                   bc_failed, published, status>>

LambdaConvert ==
    /\ entry = "lambda" /\ pc = "fetched"
    /\ \E run \in ConvRuns :
         LET c == convert_oas(fetch_result.filename, run)
         IN  /\ calls' = Append(calls, <<"convert", i>>)
             /\ conv_run' = c.run
             /\ envlog' = [envlog EXCEPT ![i].conv =
                               IF c.success THEN "ok" ELSE c.error]
             /\ IF c.success
                THEN /\ pc' = "converted"
                     /\ UNCHANGED <<i, results, successful, failed>>
                ELSE IF c.raised
                THEN record_item(Result(urls[i], FALSE, c.error, NoName, NoName))
                ELSE record_item(Result(urls[i], FALSE, c.error,
                                        fetch_result.filename, NoName))
    /\ UNCHANGED <<inputs, urls_file, get_request, token_result, token_requests,
                   cred_reads, list_reads, message, urls, total, fetch_result,
                   converted, bc_failed, token_calls, published, status>>

\* _upload_to_s3 catches every exception and returns a result
UploadOutcomes == {"ok", "upload_failed"}

LambdaUpload ==
    /\ entry = "lambda" /\ pc = "converted"
    /\ \E up \in UploadOutcomes :
         LET s3_key == lambda_s3_key(fetch_result.filename)
         IN  /\ calls' = Append(calls, <<"publish", i>>)
             /\ envlog' = [envlog EXCEPT ![i].pub = up]
             /\ IF up = "ok"
                THEN /\ published' = Append(published,
                            [filename |-> fetch_result.filename, name |-> s3_key])
                     /\ record_item(Result(urls[i], TRUE, "",
                                           fetch_result.filename, s3_key))
                ELSE /\ UNCHANGED published
                     /\ record_item(Result(urls[i], FALSE, up,
                                           fetch_result.filename, NoName))
    /\ UNCHANGED <<inputs, urls_file, get_request, token_result, token_requests,
                   cred_reads, list_reads, message, conv_run, urls, total,
                   fetch_result, converted, bc_failed, token_calls, status>>

\* the summary and the response
LambdaReport ==
    /\ entry = "lambda" /\ pc = "loop" /\ i > total
    /\ pc' = "done"
    /\ status' = "200"
    /\ message' = "complete"
    /\ UNCHANGED <<inputs, urls_file, get_request, token_result, token_requests,
                   cred_reads, list_reads, conv_run, urls, total, i, results,
                   successful, failed, fetch_result, converted, bc_failed,
                   token_calls, published, envlog, calls>>

(***************************************************************************)
(* fetcher.fetch_all_from_urls_file: the fetch loop (also the first half   *)
(* of batch_convert.main).                                                 *)
(***************************************************************************)
FetchAllFetch ==
    /\ entry \in {"fetch_all", "batch_convert"} /\ pc = "loop" /\ i <= total
    /\ \E net \in FetchOutcomes :
         LET r == fetch_oas_from_url(urls[i], use_auth, net)
         IN  /\ token_calls' = token_calls + (IF r.token_call THEN 1 ELSE 0)
             /\ calls' = Append(calls, <<"fetch", i>>)
             /\ get_request' =
                    IF r.get
                    THEN [item |-> i, authorization |-> r.authorization,
                          response |-> net]
                    ELSE get_request
             /\ envlog' = Append(envlog,
                    [NoEnv EXCEPT !.fetch = IF r.success THEN "ok" ELSE r.error])
             /\ IF r.raised
                THEN \* no try around the call: the exception leaves the
                     \* function and no report is returned
                     /\ pc' = "aborted"
                     /\ status' = "raised"
                     /\ UNCHANGED <<i, results, successful, failed>>
                ELSE /\ record_item(Result(urls[i], r.success, r.error,
                                           r.filename, NoName))
                     /\ UNCHANGED status
    /\ UNCHANGED <<inputs, urls_file, token_result, token_requests, cred_reads,
                   list_reads, message, conv_run, urls, total, fetch_result,
                   converted, bc_failed, published>>

\* the summary and the returned report; batch_convert.main goes on with
\* its conversion loop over the results
FetchAllReport ==
    /\ entry \in {"fetch_all", "batch_convert"} /\ pc = "loop" /\ i > total
    /\ IF entry = "fetch_all"
       THEN /\ pc' = "done"
            /\ status' = "success_true"
            /\ UNCHANGED i
       ELSE /\ pc' = "bc_loop"
            /\ i' = 1
            /\ UNCHANGED status
    /\ UNCHANGED <<inputs, urls_file, get_request, token_result, token_requests,
                   cred_reads, list_reads, message, conv_run, urls, total,
                   results, successful, failed, fetch_result, converted,
                   bc_failed, token_calls, published, envlog, calls>>

(***************************************************************************)
(* batch_convert.main: the conversion loop over the fetch results.         *)
(***************************************************************************)
\* a loop that converts every fetch result
skip_result_never(result) == FALSE

\* if not result['success']: failed += 1; continue
skip_result(result) == ~result.success

BatchConvert ==
    /\ entry = "batch_convert" /\ pc = "bc_loop" /\ i <= total
    /\ IF skip_result(results[i])
       THEN \* skipped: fetch failed
            /\ bc_failed' = bc_failed + 1
            /\ i' = i + 1
            /\ UNCHANGED <<pc, status, calls, envlog, conv_run>>
       ELSE \E run \in ConvRuns :
              LET c == convert_oas(results[i].filename, run)
              IN  /\ calls' = Append(calls, <<"convert", i>>)
                  /\ conv_run' = c.run
                  /\ envlog' = [envlog EXCEPT ![i].conv =
                                    IF c.success THEN "ok" ELSE c.error]
                  /\ IF c.success
                     THEN /\ pc' = "bc_converted"
                          /\ UNCHANGED <<i, bc_failed, status>>
                     ELSE IF c.raised
                     THEN \* no try around convert_oas: the exception
                          \* leaves main and the process exits with 1
                          /\ pc' = "aborted"
                          /\ status' = "exit1"
                          /\ UNCHANGED <<i, bc_failed>>
                     ELSE /\ bc_failed' = bc_failed + 1
                          /\ i' = i + 1
                          /\ UNCHANGED <<pc, status>>
    /\ UNCHANGED <<inputs, urls_file, get_request, token_result, token_requests,
                   cred_reads, list_reads, message, urls, total, results,
                   successful, failed, fetch_result, converted, token_calls,
                   published>>

\* open(output_file, 'w') and write, inside try
SaveOutcomes == {"ok", "save_failed"}

BatchSave ==
    /\ entry = "batch_convert" /\ pc = "bc_converted"
    /\ \E w \in SaveOutcomes :
         /\ calls' = Append(calls, <<"publish", i>>)
         /\ envlog' = [envlog EXCEPT ![i].pub = w]
         /\ IF w = "ok"
            THEN /\ published' = Append(published,
                        [filename |-> results[i].filename,
                         name |-> batch_output_file(results[i].filename)])
                 /\ converted' = converted + 1
                 /\ UNCHANGED bc_failed
            ELSE /\ bc_failed' = bc_failed + 1
                 /\ UNCHANGED <<published, converted>>
    /\ i' = i + 1
    /\ pc' = "bc_loop"
    /\ UNCHANGED <<inputs, urls_file, get_request, token_result, token_requests,
                   cred_reads, list_reads, message, conv_run, urls, total,
                   results, successful, failed, fetch_result, token_calls,
                   status>>

\* the final summary and sys.exit
batch_exit_status(n_converted, n_failed) ==
    IF n_converted > 0 THEN "exit0" ELSE "exit1"

BatchExit ==
    /\ entry = "batch_convert" /\ pc = "bc_loop" /\ i > total
    /\ pc' = "done"
    /\ status' = batch_exit_status(converted, bc_failed)
    /\ UNCHANGED <<inputs, urls_file, get_request, token_result, token_requests,
                   cred_reads, list_reads, message, conv_run, urls, total, i,
                   results, successful, failed, fetch_result, converted,
                   bc_failed, token_calls, published, envlog, calls>>

(***************************************************************************)
(* main.main with --url and without --output: one document.                *)
(***************************************************************************)
MainFetch ==
    /\ entry = "main" /\ pc = "start"
    /\ urls' = <<text>>
    /\ total' = 1
    /\ \E net \in FetchOutcomes :
         LET r == fetch_oas_from_url(text, use_auth, net)
         IN  /\ calls' = Append(calls, <<"fetch", i>>)
             /\ get_request' =
                    IF r.get
                    THEN [item |-> i, authorization |-> r.authorization,
                          response |-> net]
                    ELSE get_request
             /\ envlog' = Append(envlog,
                    [NoEnv EXCEPT !.fetch = IF r.success THEN "ok" ELSE r.error])
             /\ IF r.success
                THEN /\ fetch_result' = r
                     /\ pc' = "fetched"
                     /\ UNCHANGED status
                ELSE /\ pc' = "done"
                     /\ status' = "exit1"
                     /\ UNCHANGED fetch_result
    /\ UNCHANGED <<inputs, urls_file, token_result, token_requests, cred_reads,
                   list_reads, message, conv_run, i, results, successful,
                   failed, converted, bc_failed, token_calls, published>>

\* a failure result and an exception of convert_oas both end in exit(1)
MainConvert ==
    /\ entry = "main" /\ pc = "fetched"
    /\ \E run \in ConvRuns :
         LET c == convert_oas(fetch_result.filename, run)
         IN  /\ calls' = Append(calls, <<"convert", i>>)
             /\ conv_run' = c.run
             /\ envlog' = [envlog EXCEPT ![i].conv =
                               IF c.success THEN "ok" ELSE c.error]
             /\ IF c.success
                THEN pc' = "converted" /\ UNCHANGED status
                ELSE pc' = "done" /\ status' = "exit1"
    /\ UNCHANGED <<inputs, urls_file, get_request, token_result, token_requests,
                   cred_reads, list_reads, message, urls, total, i, results,
                   successful, failed, fetch_result, converted, bc_failed,
                   token_calls, published>>

MainSave ==
    /\ entry = "main" /\ pc = "converted"
    /\ \E w \in SaveOutcomes :
         /\ calls' = Append(calls, <<"publish", i>>)
         /\ envlog' = [envlog EXCEPT ![i].pub = w]
         /\ IF w = "ok"
            THEN /\ published' = Append(published,
                        [filename |-> fetch_result.filename,
                         name |-> main_output_file(fetch_result.filename)])
                 /\ status' = "exit0"
            ELSE /\ UNCHANGED published
                 /\ status' = "exit1"
    /\ pc' = "done"
    /\ UNCHANGED <<inputs, urls_file, get_request, token_result, token_requests,
                   cred_reads, list_reads, message, conv_run, urls, total, i,
                   results, successful, failed, fetch_result, converted,
                   bc_failed, token_calls>>

(***************************************************************************)
(* auth.generate_bearer_token called on its own.                           *)
(***************************************************************************)
\* creds = get_credentials(); an exception is turned into a failure result
AuthGetCredentials ==
    /\ entry = "auth" /\ pc = "start"
    /\ cred_reads' = cred_reads + 1
    /\ IF get_credentials(auth_env) = "raised"
       THEN /\ token_result' = [success |-> FALSE,
                                error |-> "token_generation_failed"]
            /\ pc' = "done"
       ELSE /\ pc' = "token_request"
            /\ UNCHANGED token_result
    /\ UNCHANGED <<inputs, urls_file, get_request, token_requests, list_reads, message,
                   conv_run, urls, total, i, results, successful, failed,
                   fetch_result, converted, bc_failed, token_calls, published,
                   envlog, calls, status>>

\* requests.post(TOKEN_URL, ...) and the reading of the response
AuthRequestToken ==
    /\ entry = "auth" /\ pc = "token_request"
    /\ token_requests' = token_requests + 1
    /\ token_result' \in token_results(auth_env.endpoint)
    /\ pc' = "done"
    /\ UNCHANGED <<inputs, urls_file, get_request, cred_reads, list_reads, message,
                   conv_run, urls, total, i, results, successful, failed,
                   fetch_result, converted, bc_failed, token_calls, published,
                   envlog, calls, status>>

(***************************************************************************)
(* .github/scripts/process_oas.py: the GitHub Actions script.              *)
(***************************************************************************)
\* "from converter import convert_oas_to_html": converter.py defines
\* OASConverter and convert_oas only, so loading the script raises
\* ImportError before main is called
ProcessOasImport ==
    /\ entry = "process_oas" /\ pc = "start"
    /\ pc' = "aborted"
    /\ status' = "raised"
    /\ UNCHANGED <<inputs, urls_file, get_request, token_result,
                   token_requests, cred_reads, list_reads, message, conv_run,
                   urls, total, i, results, successful, failed, fetch_result,
                   converted, bc_failed, token_calls, published, envlog,
                   calls>>

(***************************************************************************)
(* Specification.                                                          *)
(***************************************************************************)
Next ==
    \/ ProcessOasImport
    \/ AuthGetCredentials
    \/ AuthRequestToken
    \/ LambdaHandler
    \/ LoadSources
    \/ LambdaFetch
    \/ LambdaConvert
    \/ LambdaUpload
    \/ LambdaReport
    \/ FetchAllFetch
    \/ FetchAllReport
    \/ BatchConvert
    \/ BatchSave
    \/ BatchExit
    \/ MainFetch
    \/ MainConvert
    \/ MainSave

Spec == Init /\ [][Next]_vars

(***************************************************************************)
(* Vocabulary of the properties.                                           *)
(***************************************************************************)
AllOk == [fetch |-> "ok", conv |-> "ok", pub |-> "ok"]

\* a report was produced: the Lambda response of the batch, the dictionary
\* returned by fetch_all_from_urls_file, the final summary of batch_convert
LambdaReported ==
    entry = "lambda" /\ pc = "done" /\ status = "200" /\ message = "complete"
FetchAllReported == entry = "fetch_all" /\ pc = "done" /\ status = "success_true"
BatchReported == entry = "batch_convert" /\ pc = "done" /\ list_readable

Loaded == list_readable /\ list_reads > 0

\* fetch_urls_from_file has returned its list and no item was touched yet
LoaderReturned == Loaded /\ calls = <<>>

\* the stage of item k came back with an exception instead of a result
ItemRaised(k) ==
    \/ envlog[k].fetch = "TypeError"
    \/ envlog[k].conv \in {"ToolNotFound", "OSError"}

\* the token could not be obtained for item k
TokenFailed(k) ==
    envlog[k].fetch \in {"TypeError", "no_token_url", "auth_unavailable"}

Prefixes(l) == {SubSeq(l, 1, n) : n \in 0..Len(l)}
Suffixes(l) == {SubSeq(l, n, Len(l)) : n \in 1..(Len(l) + 1)}

\* l without the characters of chars at its end, and at its start
WithoutTrailing(l, chars) ==
    CHOOSE q \in Prefixes(l) :
        /\ q = <<>> \/ q[Len(q)] \notin chars
        /\ \A k \in (Len(q) + 1)..Len(l) : l[k] \in chars

WithoutLeading(l, chars) ==
    CHOOSE q \in Suffixes(l) :
        /\ q = <<>> \/ q[1] \notin chars
        /\ \A k \in 1..(Len(l) - Len(q)) : l[k] \in chars

Trimmed(l) == WithoutTrailing(WithoutLeading(l, Whitespace), Whitespace)

IsEntryLine(l) == l # <<>> /\ l[1] # "#"

\* the lines of a text, trimmed, that are neither blank nor comments
EntryLines(t) ==
    LET ls == split(t, NL)
    IN  SelectSeq([k \in 1..Len(ls) |-> Trimmed(ls[k])], IsEntryLine)

\* what the loader is to return for a text
ExpectedEntries(t) ==
    [k \in 1..Len(EntryLines(t)) |-> WithoutTrailing(EntryLines(t)[k], {"."})]

\* the entries a text lists, one per line that is neither blank nor a
\* comment, repeated lines included
ListedEntries(t) ==
    LET ls == split(t, NL)
        named == SelectSeq([k \in 1..Len(ls) |-> strip(ls[k])], IsEntryLine)
    IN  [k \in 1..Len(named) |-> rstrip(named[k], {"."})]

Occurrences(seq, x) == Cardinality({k \in 1..Len(seq) : seq[k] = x})

IsFetchCall(c) == c[1] = "fetch"

(***************************************************************************)
(* C1. A fetch or conversion timeout, or any other failure result, of one  *)
(* item never changes the outcome of another item of the batch: every      *)
(* item's outcome is decided by what its own stages came back with, a      *)
(* fetch timeout makes exactly that item fail, and every item of the list  *)
(* is processed whatever happened to the items before it.                  *)
(***************************************************************************)
C1_Isolation ==
    /\ entry = "lambda" =>
         \A k \in 1..Len(results) :
            /\ results[k].success = (envlog[k] = AllOk)
            /\ envlog[k].fetch = "timeout" => results[k].error = "timeout"
    /\ entry \in {"fetch_all", "batch_convert"} =>
         \A k \in 1..Len(results) :
            results[k].success = (envlog[k].fetch = "ok")
    /\ LambdaReported \/ FetchAllReported \/ BatchReported =>
         /\ Len(results) = total
         /\ Len(envlog) = total
    /\ BatchReported =>
         /\ \A k \in 1..total : envlog[k].fetch = "ok" => envlog[k].conv # "none"
         /\ converted = Cardinality({k \in 1..total : envlog[k] = AllOk})

\* sources [A, B]: A timed out, B went through, and the report says so
C1_Witness ==
    /\ LambdaReported /\ total = 2
    /\ envlog[1].fetch = "timeout" /\ ~results[1].success
    /\ envlog[2] = AllOk /\ results[2].success

(***************************************************************************)
(* C2. No exception raised while fetching, converting or publishing a      *)
(* single item terminates the batch: in every batch loop the exception is  *)
(* recorded as that item's failure and the loop goes on.                   *)
(***************************************************************************)
C2_NoItemExceptionEndsBatch ==
    \A k \in 1..Len(envlog) :
        (entry # "main" /\ ItemRaised(k)) =>
            /\ pc # "aborted"
            /\ entry = "lambda" => (k <= Len(results) /\ ~results[k].success)

(***************************************************************************)
(* C3. When authentication is requested, token issuance is invoked at most *)
(* once per batch run, whatever the number of items.                       *)
(***************************************************************************)
C3_TokenIssuedAtMostOnce == use_auth => token_calls <= 1

(***************************************************************************)
(* C4. When authentication is requested and the token cannot be obtained,  *)
(* the batch is aborted before the item loop: no per-item outcome is       *)
(* produced and no report of per-item failures is returned.                *)
(***************************************************************************)
C4_TokenFailureAbortsBatch ==
    (use_auth /\ \E k \in 1..Len(envlog) : TokenFailed(k)) =>
        /\ results = <<>>
        /\ ~LambdaReported /\ ~FetchAllReported

(***************************************************************************)
(* C5. successful + failed equals the number of items processed so far     *)
(* after every iteration, which is also the number of results; in a report *)
(* both equal total; batch_convert ends with converted + failed = total.   *)
(***************************************************************************)
C5_Counts ==
    /\ successful + failed = Len(results)
    /\ pc \in {"loop", "fetched", "converted"} /\ entry # "main" =>
         Len(results) = i - 1
    /\ LambdaReported \/ FetchAllReported =>
         /\ successful + failed = total
         /\ Len(results) = total
    /\ entry = "batch_convert" /\ pc = "bc_loop" => converted + bc_failed = i - 1
    /\ BatchReported => converted + bc_failed = total

\* a Lambda report over two items, one of each kind
C5_Witness ==
    LambdaReported /\ total = 2 /\ successful = 1 /\ failed = 1

(***************************************************************************)
(* C6. Items are processed in the order of the source list, the k-th       *)
(* outcome is the outcome of the k-th entry, and an entry listed n times   *)
(* is processed n times and has n outcomes.                                *)
(***************************************************************************)
C6_OrderAndDuplicates ==
    /\ entry \in {"lambda", "fetch_all", "batch_convert"} =>
         /\ \A k \in 1..Len(results) : results[k].url = urls[k]
         /\ LET fetches == SelectSeq(calls, IsFetchCall)
            IN  \A k \in 1..Len(fetches) : fetches[k] = <<"fetch", k>>
    /\ LambdaReported \/ FetchAllReported =>
         /\ Len(results) = Len(urls)
         /\ Len(SelectSeq(calls, IsFetchCall)) = Len(urls)
         /\ LET listed == ListedEntries(text)
                outcomes == [n \in 1..Len(results) |-> results[n].url]
            IN  \A k \in 1..Len(listed) :
                    Occurrences(outcomes, listed[k]) = Occurrences(listed, listed[k])

\* the same entry twice in the list, and two outcomes for it
C6_Witness ==
    /\ LambdaReported /\ total = 2
    /\ urls[1] = urls[2]
    /\ results[1].url = urls[1] /\ results[2].url = urls[1]
    /\ results[1].success /\ ~results[2].success

(***************************************************************************)
(* C7. The run is reported as failed (error-class response of the handler, *)
(* non-zero exit status of the batch job) if and only if failed > 0 in the *)
(* final report.                                                           *)
(***************************************************************************)
C7_FailedIffFailures ==
    /\ entry = "lambda" /\ pc = "done" /\ Loaded =>
         ((status # "200") <=> (failed > 0))
    /\ BatchReported => ((status # "exit0") <=> (bc_failed > 0))

(***************************************************************************)
(* C8. fetch_urls_from_file returns exactly the lines that, trimmed, are   *)
(* non-empty and do not start with "#", each without its trailing dots, in *)
(* file order and without deduplication.                                   *)
(***************************************************************************)
C8_LoaderEntries ==
    LoaderReturned =>
        LET expected == ExpectedEntries(text)
        IN  urls = expected /\ total = Len(expected)

\* the scenario: a comment, a blank line, a URL, a URL with a trailing dot
C8_Witness ==
    /\ LoaderReturned /\ text = ExampleText
    /\ urls = <<HOST \o <<"a">> \o JSON, HOST \o <<"b">> \o JSON>>

(***************************************************************************)
(* C9. Every entry the loader returns is non-empty after trimming, for     *)
(* every text, and count is the number of such non-empty entries.          *)
(***************************************************************************)
C9_EntriesNonEmpty ==
    Loaded =>
        /\ \A k \in 1..Len(urls) : strip(urls[k]) # <<>>
        /\ total = Cardinality({k \in 1..Len(urls) : strip(urls[k]) # <<>>})

(***************************************************************************)
(* C10. A document whose derived filename is <base>.yaml, <base>.yml or    *)
(* <base>.json is published as <base>.html: html/<base>.html for the       *)
(* upload of the Lambda handler, output/<base>.html for batch_convert and  *)
(* main.                                                                   *)
(***************************************************************************)
C10_HtmlName ==
    \A k \in 1..Len(published) :
        \A ext \in {YAML, YML, JSON} :
            LET f == published[k].filename
                base == SubSeq(f, 1, Len(f) - Len(ext))
                dir == IF entry = "lambda" THEN HTML_PREFIX ELSE OUTPUT_DIR
            IN  endswith(f, ext) => published[k].name = dir \o base \o HTML


(***************************************************************************)
(* Sample filenames for the naming rules: concatenations of pieces that    *)
(* contain the extensions and fragments of them.                           *)
(***************************************************************************)
Pieces ==
    {<<"a">>, <<".">>, <<".", "y">>, <<"m", "l">>, <<"a", "m", "l">>,
     YAML, YML, JSON, HTML}

RECURSIVE concat(_)
concat(ps) == IF ps = <<>> THEN <<>> ELSE Head(ps) \o concat(Tail(ps))

NameSamples ==
    {concat(ps) : ps \in UNION {[1..n -> Pieces] : n \in 0..MaxPieces}}

SampleNamesIdempotent ==
    \A f \in NameSamples :
        /\ lambda_html_filename(lambda_html_filename(f)) = lambda_html_filename(f)
        /\ batch_html_filename(batch_html_filename(f)) = batch_html_filename(f)

\* C11: the output name is a function of the derived filename only (two
\* items with the same filename are written to the same key), and the naming
\* rule applied to a name it produced returns that name unchanged, in the
\* Lambda and in batch_convert.
C11_NamingIdempotent ==
    /\ \A k \in 1..Len(published) :
          LET f == published[k].filename
          IN  /\ entry = "lambda" =>
                   LET name == lambda_html_filename(f)
                   IN  /\ published[k].name = HTML_PREFIX \o name
                       /\ lambda_html_filename(name) = name
              /\ entry = "batch_convert" =>
                   LET name == batch_html_filename(f)
                   IN  /\ published[k].name = OUTPUT_DIR \o name
                       /\ batch_html_filename(name) = name
    /\ \A j, k \in 1..Len(published) :
          published[j].filename = published[k].filename
              => published[j].name = published[k].name
    /\ SampleNamesIdempotent

\* the same source published twice by the Lambda, under a replaced extension
C11_Witness ==
    /\ entry = "lambda" /\ Len(published) = 2
    /\ published[1].filename = published[2].filename
    /\ published[1].name = published[2].name
    /\ published[1].name # HTML_PREFIX \o published[1].filename

\* the item being processed has just been converted successfully
JustConverted == pc \in {"converted", "bc_converted"}

\* C12: convert returns success only when the tool ran to its end within the
\* timeout, exited with status 0 and produced the output file; an exit 0
\* without output file is never a success.
C12_SuccessNeedsOutput ==
    JustConverted =>
        conv_run.kind = "exit" /\ conv_run.rc = 0 /\ conv_run.out

\* C13: when Node.js or the packager CLI cannot be located the run is aborted
\* at startup: no source is fetched and no per-item outcome is recorded, in
\* the Lambda handler and in batch_convert.
C13_MissingToolAbortsAtStartup ==
    (~tool_found /\ entry \in {"lambda", "batch_convert"}) =>
        /\ \A n \in 1..Len(calls) : ~IsFetchCall(calls[n])
        /\ results = <<>>

\* C14: when the source list cannot be read the run ends with an error
\* outcome (status 404 of the Lambda handler, success false of
\* fetch_all_from_urls_file, exit 1 of batch_convert) and no item is fetched,
\* converted or published.
C14_UnreadableListEndsRun ==
    (~list_readable /\ list_reads > 0) =>
        /\ pc = "done"
        /\ entry = "lambda" => status = "404" /\ message = "read_failed"
        /\ entry = "fetch_all" => status = "success_false"
        /\ entry = "batch_convert" => status = "exit1"
        /\ calls = <<>> /\ results = <<>> /\ published = <<>>
        /\ urls = <<>>

\* the Lambda handler has answered 404 for a list that does not resolve
C14_Witness ==
    /\ entry = "lambda" /\ ~list_readable /\ list_reads = 1
    /\ pc = "done" /\ status = "404" /\ calls = <<>>

\* C15: outside the managed environment, with CLIENT_ID or CLIENT_SECRET
\* unset or empty, generate_bearer_token returns a failure for the missing
\* credentials and sends no request to the token endpoint.
C15_NoCredentialsNoTokenRequest ==
    ( /\ entry = "auth" /\ ~auth_env.managed /\ cred_reads > 0
      /\ auth_env.CLIENT_ID # "value" \/ auth_env.CLIENT_SECRET # "value" ) =>
        /\ pc = "done"
        /\ ~token_result.success
        /\ token_result.error = "token_generation_failed"
        /\ token_requests = 0

\* CLIENT_ID is set and CLIENT_SECRET is the empty string
C15_Witness ==
    /\ entry = "auth" /\ ~auth_env.managed
    /\ auth_env.CLIENT_ID = "value" /\ auth_env.CLIENT_SECRET = "empty"
    /\ pc = "done" /\ ~token_result.success /\ token_requests = 0

\* the fetches of the run are asked to authenticate
AuthRequested == batch_use_auth

\* the last call of fetch_oas_from_url sent its GET
LastFetchSentGet == get_request.item = Len(envlog)

\* C16: when authentication is requested, the credentials resolve and the
\* token endpoint issues a token, fetch_oas_from_url sends the GET of the
\* document with the header Authorization: Bearer <token>.
C16_AuthenticatedGetCarriesToken ==
    ( /\ entry # "auth" /\ AuthRequested /\ AUTH_AVAILABLE /\ TOKEN_URL_set
      /\ get_credentials(auth_env) = "ok" /\ auth_env.endpoint = "token"
      /\ Len(envlog) >= 1 ) =>
        /\ LastFetchSentGet
        /\ get_request.authorization = "bearer"

\* C17: when authentication is not requested, a fetch resolves no
\* credentials, calls no token issuer, posts nothing to the token endpoint
\* and sends the GET of the document without an Authorization header.
C17_NoAuthNoTokenNoHeader ==
    (entry # "auth" /\ ~AuthRequested) =>
        /\ cred_reads = 0 /\ token_calls = 0 /\ token_requests = 0
        /\ get_request.authorization = "none"
        /\ Len(envlog) >= 1 => LastFetchSentGet

\* two documents fetched by a manual invocation without use_auth
C17_Witness ==
    /\ entry = "lambda" /\ event.kind = "manual" /\ ~use_auth
    /\ Len(envlog) = 2 /\ get_request.item = 2
    /\ get_request.response = "ok" /\ get_request.authorization = "none"
    /\ envlog[2].fetch = "ok" /\ token_calls = 0

\* C18: fetch_oas_from_url never raises; a response outside 2xx yields the
\* HTTP failure, a timeout the timeout failure, another network fault the
\* request failure, and only a 2xx response yields success.
C18_FetchClassification ==
    /\ \A k \in 1..Len(envlog) : envlog[k].fetch # "TypeError"
    /\ (Len(envlog) >= 1 /\ LastFetchSentGet) =>
         LET outcome == envlog[Len(envlog)].fetch
             response == get_request.response
         IN  /\ (outcome = "ok") <=> (response = "ok")
             /\ response \in {"http_error", "status_3xx"} => outcome = "http_error"
             /\ response = "timeout" => outcome = "timeout"
             /\ response = "request_error" => outcome = "request_error"

\* the notified object key ends in urls.txt
KeyIsSourceList == URLS_TXT \in Suffixes(event.key)

\* C19: an S3 notification is processed only if its object key ends in
\* urls.txt; for any other key the handler answers 200 "skipped" and reads
\* no source list, fetches, converts and uploads nothing.
C19_OnlyUrlsTxtProcessed ==
    (entry = "lambda" /\ event.kind = "records" /\ pc # "start") =>
        IF KeyIsSourceList
        THEN message # "skipped" /\ (pc = "batch" \/ list_reads = 1)
        ELSE /\ pc = "done" /\ status = "200" /\ message = "skipped"
             /\ list_reads = 0 /\ urls = <<>>
             /\ calls = <<>> /\ results = <<>> /\ published = <<>>

\* a notification for urls.txt.b has been acknowledged as skipped
C19_Witness ==
    /\ entry = "lambda" /\ event.kind = "records"
    /\ event.key = URLS_TXT \o <<".", "b">>
    /\ pc = "done" /\ status = "200" /\ message = "skipped" /\ list_reads = 0

\* item k was fetched and converted and its upload failed
PublishFailed(k) ==
    /\ envlog[k].fetch = "ok" /\ envlog[k].conv = "ok"
    /\ envlog[k].pub = "upload_failed"

\* the record of the Lambda report for an item whose conversion failed with
\* a result, its error message left aside
ConversionFailureRecord(k) ==
    Result(urls[k], FALSE, "", results[k].filename, NoName)

\* C20: an item that was fetched and converted and whose upload failed is
\* reported with the upload error as a partial success (converted, not
\* published): its record differs from a full success and, other than by
\* the wording of the error, from the record of a failed conversion.
C20_PublishFailureIsPartialSuccess ==
    \A k \in 1..Len(results) :
        (entry = "lambda" /\ PublishFailed(k)) =>
            /\ results[k].error = "upload_failed"
            /\ ~(results[k].success /\ results[k].s3_key # NoName)
            /\ [results[k] EXCEPT !.error = ""] # ConversionFailureRecord(k)

\* C21: lambda_handler accepts an event naming one document URL ('url') and
\* an event carrying inline content ('oas_content', 'oas_file_name'): it
\* converts the document and does not reject the event.
C21_UrlAndInlineEventsConverted ==
    (entry = "lambda" /\ event.kind \in {"url", "inline"} /\ pc = "done") =>
        /\ status # "400"
        /\ \E n \in 1..Len(calls) : calls[n][1] = "convert"

\* C22: the GitHub Actions script is equivalent to the Lambda batch handler:
\* for a source list it runs to a report whose total is the number of
\* entries of the list and whose successful and failed counts add up to it,
\* with one result per entry, as the report of the Lambda handler does.
C22_ScriptReportsLikeLambda ==
    (entry = "process_oas" /\ pc # "start") =>
        /\ status # "raised"
        /\ pc = "done" =>
             /\ total = Len(parse_urls(text))
             /\ Len(results) = total
             /\ successful + failed = total

\* the calls made before the last one
EarlierCalls == {calls[n] : n \in 1..(Len(calls) - 1)}

\* C23: for each item the stages are invoked in the order fetch, convert,
\* publish: convert only after the item's fetch succeeded, publish only
\* after its conversion succeeded, each stage at most once per item, and no
\* stage for an item that has failed or is done (stated for the last call of
\* every state, every call being the last call of some state).
C23_StageOrder ==
    (entry \in {"lambda", "batch_convert"} /\ calls # <<>>) =>
        LET c == calls[Len(calls)]
            k == c[2]
        IN  /\ c \notin EarlierCalls
            /\ k \in 1..Len(envlog)
            /\ c[1] = "fetch" =>
                 /\ <<"convert", k>> \notin EarlierCalls
                 /\ <<"publish", k>> \notin EarlierCalls
            /\ c[1] = "convert" =>
                 /\ <<"fetch", k>> \in EarlierCalls
                 /\ envlog[k].fetch = "ok"
                 /\ <<"publish", k>> \notin EarlierCalls
            /\ c[1] = "publish" =>
                 /\ <<"convert", k>> \in EarlierCalls
                 /\ envlog[k].fetch = "ok" /\ envlog[k].conv = "ok"

\* batch_convert has fetched two documents, the first one failing, and has
\* converted and saved the second
C23_Witness ==
    /\ entry = "batch_convert"
    /\ calls = << <<"fetch", 1>>, <<"fetch", 2>>, <<"convert", 2>>,
                  <<"publish", 2>> >>
    /\ envlog[1].fetch # "ok" /\ envlog[1].conv = "none"

\* item j has reached Done or Failed: one of its stages failed or it was
\* published
Terminal(j) ==
    \/ envlog[j].fetch \notin {"ok", "none"}
    \/ envlog[j].conv \notin {"ok", "none"}
    \/ envlog[j].pub # "none"

\* C24: items are processed one at a time in the Lambda handler and in
\* batch_convert: when a stage of an item is invoked, every earlier item has
\* reached Done or Failed (stated for the last call of every state).
C24_OneItemAtATime ==
    (entry \in {"lambda", "batch_convert"} /\ calls # <<>>) =>
        \A j \in 1..(calls[Len(calls)][2] - 1) : Terminal(j)

\* the run has taken its last step
Ended == pc \in {"done", "aborted"}

\* C25: every run of the Lambda handler or of fetch_all_from_urls_file whose
\* source list was loaded ends in the reported state, whatever fails for the
\* items: when it has ended, a report with total, successful and failed
\* counts exists and every item has its outcome.
C25_LoadedRunReports ==
    (Loaded /\ entry \in {"lambda", "fetch_all"} /\ Ended) =>
        /\ LambdaReported \/ FetchAllReported
        /\ Len(results) = total
        /\ successful + failed = total

\* the part of a URL before its query string and fragment
RECURSIVE UrlPath(_)
UrlPath(u) ==
    IF u = <<>> \/ Head(u) \in {"?", "#"} THEN <<>>
    ELSE <<Head(u)>> \o UrlPath(Tail(u))

\* what follows the last "/" of a path
LastSegment(p) ==
    CHOOSE seg \in Suffixes(p) :
        /\ \A n \in 1..Len(seg) : seg[n] # "/"
        /\ Len(seg) = Len(p) \/ p[Len(p) - Len(seg)] = "/"

PathFilename(u) ==
    IF LastSegment(UrlPath(u)) = <<>> THEN OPENAPI_JSON
    ELSE LastSegment(UrlPath(u))

\* C26: the filename derived for a fetched URL is the last segment of the
\* URL's path (not of its query string or fragment), openapi.json when that
\* segment is empty, and never empty.
C26_DerivedFilename ==
    /\ pc = "fetched" =>
         /\ fetch_result.filename # <<>>
         /\ fetch_result.filename = PathFilename(urls[i])
    /\ \A k \in 1..Len(results) :
         results[k].filename # NoName =>
             results[k].filename = PathFilename(results[k].url)

\* the filename handed to the last call of convert_oas
ConvertedFilename ==
    IF entry = "batch_convert" THEN results[calls[Len(calls)][2]].filename
    ELSE fetch_result.filename

\* C27: in every call of convert that runs the tool, the file the document
\* is written to and the file the output is expected at are distinct, for
\* every derived filename, so the call succeeds only with an output file the
\* tool produced.
C27_InputAndOutputDistinct ==
    ( /\ calls # <<>> /\ calls[Len(calls)][1] = "convert"
      /\ conv_run # NoRun ) =>
        /\ input_file(ConvertedFilename) # html_output
        /\ envlog[calls[Len(calls)][2]].conv = "ok" => conv_run.out

\* C28: a batch_convert run whose source list was loaded exits with status 0
\* exactly if at least one document was converted and saved, however many
\* items failed; a source list without entries exits with a non-zero status.
C28_ExitStatus ==
    (entry = "batch_convert" /\ Loaded /\ Ended) =>
        /\ status \in {"exit0", "exit1"}
        /\ status = "exit0" <=> converted > 0
        /\ total = 0 => status = "exit1"

\* C29: for an S3 notification only Records[0] decides what is processed:
\* the source list read is the key of the first record, it is read at most
\* once, a first key that is no source list leaves every later record
\* unread, and no fetch of the run asks for a token or sends one.
C29_FirstRecordOnly ==
    (entry = "lambda" /\ event.kind = "records") =>
        /\ list_reads <= 1
        /\ list_reads = 1 => urls_file = event.key /\ is_urls_file(event.key)
        /\ ~is_urls_file(event.key) => list_reads = 0 /\ calls = <<>>
        /\ token_calls = 0
        /\ get_request.authorization = "none"

\* a notification with a second record and a stray use_auth was processed
\* from its first record, and a document was fetched, converted and uploaded
C29_Witness ==
    /\ LambdaReported /\ event.kind = "records"
    /\ event.rest # <<>> /\ event.key # URLS_TXT
    /\ use_auth /\ AUTH_AVAILABLE /\ TOKEN_URL_set
    /\ list_reads = 1 /\ urls_file = event.key
    /\ successful > 0 /\ get_request.item > 0

\* the status codes a response of lambda_handler carries
StatusCodes == {"200", "400", "404", "500"}

====
